---- MODULE Spec2Model ----
(***************************************************************************)
(* QKart cart service (src/src/services/cart.service.js).                  *)
(*                                                                         *)
(* The persisted state is the cart collection (one document per user       *)
(* email), the users' walletMoney, and the product catalog.  Every service *)
(* call is an async function: the code between two awaits runs atomically  *)
(* on the Node event loop, and each awaited store call is one step of the  *)
(* request that issued it.  Requests are served by a fixed pool of request *)
(* slots; the steps of different requests interleave freely.               *)
(*                                                                         *)
(* The Cart and User models are not part of the sources: a save writes the *)
(* whole document as the handler holds it, and the cart collection is      *)
(* keyed uniquely by email.                                                *)
(***************************************************************************)
EXTENDS Integers, Sequences, FiniteSets, TLC

VARIABLES carts, wallet, addressSet, catalog, req, calls

vars == <<carts, wallet, addressSet, catalog, req, calls>>

----------------------------------------------------------------------------
(* Bounds of the model *)

\* request slots that can be in flight at once
NumProcs == 2
\* service calls and catalog changes in one behaviour, one request at a time
MaxCalls == 3
\* service calls and catalog changes in one behaviour, requests interleaving
MaxRacingCalls == 2
\* addProductToCart and checkout calls in one behaviour, interleaving
MaxCheckoutRaceCalls == 4

Procs == 1..NumProcs
Users == {"u1", "u2"}
\* ids of the products the catalog lists at some time
ProductIds == {"p1", "p2"}
\* product ids as the caller sends them (strings); "p0" is never a product
RequestIds == ProductIds \cup {"p0"}
Costs == {100, 150}
Quantities == {2, 5}
InitWallets == {500}
CatalogEntries == {<<>>} \cup {<<c>> : c \in Costs}

\* findOne / findById found nothing
NoCart == [exists |-> FALSE, cartItems |-> <<>>]
Absent == [_id |-> [hex |-> "null"], cost |-> 0]
\* a product id the catalog does not list has no entry
Unlisted == <<>>
NoResult == [code |-> 0, message |-> "pending"]
NoProduct == "-"

\* a cart document holding these line items
CartDoc(cartItems) == [exists |-> TRUE, cartItems |-> cartItems]

----------------------------------------------------------------------------
(* Errors thrown by the service *)

OK == [code |-> 200, message |-> "OK"]
ErrNoCart == [code |-> 404, message |-> "User does not have a cart"]
ErrAlreadyInCart ==
    [code |-> 400,
     message |-> "Product already in cart. Use the cart sidebar to update or remove product from cart"]
ErrNoProduct == [code |-> 400, message |-> "Product doesn't exist in database"]
ErrNoCartUpdate ==
    [code |-> 400,
     message |-> "User does not have a cart. Use POST to create cart and add a product"]
ErrNotInCart == [code |-> 400, message |-> "Product not in cart"]
ErrNoCartDelete == [code |-> 400, message |-> "User does not have a cart"]
ErrEmptyCart == [code |-> 400, message |-> "No products in cart"]
ErrBalance == [code |-> 400, message |-> "Insufficient Balance"]
ErrNoAddress == [code |-> 400, message |-> "No address set"]
ErrInternal == [code |-> 500, message |-> "Internal Server Error"]

----------------------------------------------------------------------------
(* Documents *)

\* a Mongo ObjectId; the caller's productId is its string form
ObjectId(s) == [hex |-> s]
IdToString(oid) == oid.hex

\* Product.findById(productId): the product document, or Absent
ProductFindById(productId) ==
    IF productId \notin ProductIds \/ catalog[productId] = Unlisted
    THEN Absent
    ELSE [_id |-> ObjectId(productId), cost |-> catalog[productId][1]]

\* Cart.findOne({email}): the user's cart document, or NoCart
CartFindOne(u) == carts[u]

\* cartObj.save(): the whole document replaces the stored one
CartSave(u, cartObj) == [carts EXCEPT ![u] = cartObj]

\* user.save()
UserSave(u, walletMoney) == [wallet EXCEPT ![u] = walletMoney]

\* the scan compares the ObjectId itself with the string: never equal
checkProductInCartNoToString(cartItems, productId) ==
    \E i \in 1..Len(cartItems) : cartItems[i].product._id.hex = "ObjectId" \o productId

checkProductInCart(cartItems, productId) ==
    \E i \in 1..Len(cartItems) : IdToString(cartItems[i].product._id) = productId

\* cartItems.push({product, quantity})
PushItem(cartItems, prodObj, quantity) ==
    Append(cartItems, [product |-> prodObj, quantity |-> quantity])

\* the quantity is added to the line's instead of replacing it
SetQuantityAdd(cartItems, productId, quantity) ==
    LET first == CHOOSE i \in 1..Len(cartItems) :
                   /\ IdToString(cartItems[i].product._id) = productId
                   /\ \A j \in 1..(i - 1) :
                        IdToString(cartItems[j].product._id) # productId
    IN [cartItems EXCEPT ![first].quantity = @ + quantity]

\* the first line with the id gets the quantity
SetQuantity(cartItems, productId, quantity) ==
    LET first == CHOOSE i \in 1..Len(cartItems) :
                   /\ IdToString(cartItems[i].product._id) = productId
                   /\ \A j \in 1..(i - 1) :
                        IdToString(cartItems[j].product._id) # productId
    IN [cartItems EXCEPT ![first].quantity = quantity]

\* the filter keeps the matching lines (=== for !==)
FilterKeepOnly(cartItems, productId) ==
    SelectSeq(cartItems, LAMBDA item : IdToString(item.product._id) = productId)

\* cartItems.filter(item => item.product._id.toString() !== productId)
FilterOut(cartItems, productId) ==
    SelectSeq(cartItems, LAMBDA item : IdToString(item.product._id) # productId)

RECURSIVE CartTotalCostOnly(_)
\* the total leaves the quantities out
CartTotalCostOnly(cartItems) ==
    IF Len(cartItems) = 1
    THEN cartItems[1].product.cost
    ELSE CartTotalCostOnly(SubSeq(cartItems, 1, Len(cartItems) - 1))
         + cartItems[Len(cartItems)].product.cost

RECURSIVE CartTotal(_)
\* map(cost * quantity).reduce(+) over a non-empty list
CartTotal(cartItems) ==
    IF Len(cartItems) = 1
    THEN cartItems[1].product.cost * cartItems[1].quantity
    ELSE CartTotal(SubSeq(cartItems, 1, Len(cartItems) - 1))
         + cartItems[Len(cartItems)].product.cost * cartItems[Len(cartItems)].quantity

----------------------------------------------------------------------------
(* Requests *)

Idle ==
    [pc |-> "idle", op |-> "none", user |-> "u1", productId |-> NoProduct,
     quantity |-> 0, cartObj |-> NoCart, walletMoney |-> 0, address |-> FALSE,
     total |-> 0, result |-> NoResult,
     pre |-> [cart |-> NoCart, wallet |-> 0]]

AllIdle == \A p \in Procs : req[p].pc = "idle"

\* no cart yet (carts are created by the first add); the users differ in
\* whether a shipping address is set; both products are listed
Init ==
    /\ carts = [u \in Users |-> NoCart]
    /\ wallet \in [Users -> InitWallets]
    /\ addressSet = [u \in Users |-> u = "u1"]
    /\ catalog = [productId \in ProductIds |-> IF productId = "p1" THEN <<100>> ELSE <<150>>]
    /\ req = [p \in Procs |-> Idle]
    /\ calls = 0

\* the HTTP layer hands the handler the user record it loaded and the body
Begin(p, op, u, productId, quantity) ==
    /\ req[p].pc = "idle"
    /\ \A other \in 1..(p - 1) : req[other].pc # "idle"
    /\ calls' = calls + 1
    /\ req' = [req EXCEPT ![p] =
         [Idle EXCEPT !.pc = "find", !.op = op, !.user = u,
                      !.productId = productId, !.quantity = quantity,
                      !.walletMoney = IF op = "checkout" THEN wallet[u] ELSE 0,
                      !.address = IF op = "checkout" THEN addressSet[u] ELSE FALSE,
                      !.pre = [cart |-> carts[u], wallet |-> wallet[u]]]]
    /\ UNCHANGED <<carts, wallet, addressSet, catalog>>

BeginGet(p) ==
    \E u \in Users : Begin(p, "get", u, NoProduct, 0)

BeginAdd(p) ==
    \E u \in Users, productId \in RequestIds, quantity \in Quantities :
        Begin(p, "add", u, productId, quantity)

BeginUpdate(p) ==
    \E u \in Users, productId \in RequestIds, quantity \in Quantities :
        Begin(p, "update", u, productId, quantity)

BeginDelete(p) ==
    \E u \in Users, productId \in RequestIds :
        Begin(p, "delete", u, productId, 0)

BeginCheckout(p) ==
    \E u \in Users : Begin(p, "checkout", u, NoProduct, 0)

\* the handler throws or returns: the request is over with this result
Finish(p, r, result) == [req EXCEPT ![p] = [r EXCEPT !.pc = "done", !.result = result]]

Goto(p, r, pc) == [req EXCEPT ![p] = [r EXCEPT !.pc = pc]]

At(p, op, pc) == req[p].op = op /\ req[p].pc = pc

----------------------------------------------------------------------------
(* getCartByUser *)

\* get-or-create: a missing cart is created instead of reported
getOrCreateCart(p) ==
    /\ At(p, "get", "find")
    /\ carts' = CartSave(req[p].user, CartDoc(carts[req[p].user].cartItems))
    /\ req' = Finish(p, [req[p] EXCEPT !.cartObj = CartDoc(carts[req[p].user].cartItems)], OK)
    /\ UNCHANGED <<wallet, addressSet, catalog, calls>>

getCartByUser(p) ==
    /\ At(p, "get", "find")
    /\ LET r == [req[p] EXCEPT !.cartObj = CartFindOne(req[p].user)]
       IN req' = Finish(p, r, IF r.cartObj = NoCart THEN ErrNoCart ELSE OK)
    /\ UNCHANGED <<carts, wallet, addressSet, catalog, calls>>

----------------------------------------------------------------------------
(* addProductToCart *)

\* the membership check is left out
AddCheckSkip(p, r) == Goto(p, r, "lookup")

\* after the cart is in hand: the membership check, then Product.findById is issued
AddCheck(p, r) ==
    IF checkProductInCart(r.cartObj.cartItems, r.productId)
    THEN Finish(p, r, ErrAlreadyInCart)
    ELSE Goto(p, r, "lookup")

AddFind(p) ==
    /\ At(p, "add", "find")
    /\ LET r == [req[p] EXCEPT !.cartObj = CartFindOne(req[p].user)]
       IN req' = IF r.cartObj = NoCart THEN Goto(p, r, "create") ELSE AddCheck(p, r)
    /\ UNCHANGED <<carts, wallet, addressSet, catalog, calls>>

\* Cart.create({email}); the collection is keyed uniquely by email
AddCreate(p) ==
    /\ At(p, "add", "create")
    /\ IF carts[req[p].user] # NoCart
       THEN /\ req' = Finish(p, req[p], ErrInternal)
            /\ UNCHANGED carts
       ELSE /\ carts' = CartSave(req[p].user, CartDoc(<<>>))
            /\ req' = AddCheck(p, [req[p] EXCEPT !.cartObj = CartDoc(<<>>)])
    /\ UNCHANGED <<wallet, addressSet, catalog, calls>>

AddLookup(p) ==
    /\ At(p, "add", "lookup")
    /\ LET r == req[p]
           prodObj == ProductFindById(r.productId)
       IN req' = IF prodObj = Absent
                 THEN Finish(p, r, ErrNoProduct)
                 ELSE Goto(p, [r EXCEPT !.cartObj.cartItems =
                                  PushItem(r.cartObj.cartItems, prodObj, r.quantity)],
                           "saveCart")
    /\ UNCHANGED <<carts, wallet, addressSet, catalog, calls>>

\* the new line is appended to the stored list, not written with the list read
AddSaveAppend(p) ==
    /\ At(p, "add", "saveCart")
    /\ carts' = CartSave(req[p].user,
                         CartDoc(Append(carts[req[p].user].cartItems,
                                        req[p].cartObj.cartItems[Len(req[p].cartObj.cartItems)])))
    /\ req' = Finish(p, req[p], OK)
    /\ UNCHANGED <<wallet, addressSet, catalog, calls>>

AddSave(p) ==
    /\ At(p, "add", "saveCart")
    /\ carts' = CartSave(req[p].user, req[p].cartObj)
    /\ req' = Finish(p, req[p], OK)
    /\ UNCHANGED <<wallet, addressSet, catalog, calls>>

----------------------------------------------------------------------------
(* updateProductInCart *)

UpdFind(p) ==
    /\ At(p, "update", "find")
    /\ LET r == [req[p] EXCEPT !.cartObj = CartFindOne(req[p].user)]
       IN req' = IF r.cartObj = NoCart
                 THEN Finish(p, r, ErrNoCartUpdate)
                 ELSE Goto(p, r, "lookup")
    /\ UNCHANGED <<carts, wallet, addressSet, catalog, calls>>

\* the cart is scanned for the product before the catalog is asked
UpdLookupCartFirst(p) ==
    /\ At(p, "update", "lookup")
    /\ LET r == req[p]
           prodObj == ProductFindById(r.productId)
       IN req' = IF ~checkProductInCart(r.cartObj.cartItems, r.productId)
                 THEN Finish(p, r, ErrNotInCart)
                 ELSE IF prodObj = Absent
                 THEN Finish(p, r, ErrNoProduct)
                 ELSE Goto(p, [r EXCEPT !.cartObj.cartItems =
                                  SetQuantity(r.cartObj.cartItems, r.productId, r.quantity)],
                           "saveCart")
    /\ UNCHANGED <<carts, wallet, addressSet, catalog, calls>>

UpdLookup(p) ==
    /\ At(p, "update", "lookup")
    /\ LET r == req[p]
           prodObj == ProductFindById(r.productId)
       IN req' = IF prodObj = Absent
                 THEN Finish(p, r, ErrNoProduct)
                 ELSE IF ~checkProductInCart(r.cartObj.cartItems, r.productId)
                 THEN Finish(p, r, ErrNotInCart)
                 ELSE Goto(p, [r EXCEPT !.cartObj.cartItems =
                                  SetQuantity(r.cartObj.cartItems, r.productId, r.quantity)],
                           "saveCart")
    /\ UNCHANGED <<carts, wallet, addressSet, catalog, calls>>

\* the call answers without saving the cart
UpdSaveSkipped(p) ==
    /\ At(p, "update", "saveCart")
    /\ req' = Finish(p, req[p], OK)
    /\ UNCHANGED <<carts, wallet, addressSet, catalog, calls>>

UpdSave(p) ==
    /\ At(p, "update", "saveCart")
    /\ carts' = CartSave(req[p].user, req[p].cartObj)
    /\ req' = Finish(p, req[p], OK)
    /\ UNCHANGED <<wallet, addressSet, catalog, calls>>

----------------------------------------------------------------------------
(* deleteProductFromCart *)

DelFind(p) ==
    /\ At(p, "delete", "find")
    /\ LET r == [req[p] EXCEPT !.cartObj = CartFindOne(req[p].user)]
       IN req' = IF r.cartObj = NoCart
                 THEN Finish(p, r, ErrNoCartDelete)
                 ELSE IF ~checkProductInCart(r.cartObj.cartItems, r.productId)
                 THEN Finish(p, r, ErrNotInCart)
                 ELSE Goto(p, [r EXCEPT !.cartObj.cartItems =
                                  FilterOut(r.cartObj.cartItems, r.productId)],
                           "saveCart")
    /\ UNCHANGED <<carts, wallet, addressSet, catalog, calls>>

\* the write is not filtered by email: it lands on the first cart document
DelSaveFirstCart(p) ==
    /\ At(p, "delete", "saveCart")
    /\ carts' = CartSave("u1", req[p].cartObj)
    /\ req' = Finish(p, req[p], OK)
    /\ UNCHANGED <<wallet, addressSet, catalog, calls>>

DelSave(p) ==
    /\ At(p, "delete", "saveCart")
    /\ carts' = CartSave(req[p].user, req[p].cartObj)
    /\ req' = Finish(p, req[p], OK)
    /\ UNCHANGED <<wallet, addressSet, catalog, calls>>

----------------------------------------------------------------------------
(* checkout *)

\* the address is checked before the balance
ChkFindAddressFirst(p) ==
    /\ At(p, "checkout", "find")
    /\ LET r == [req[p] EXCEPT !.cartObj = CartFindOne(req[p].user)]
       IN req' = IF r.cartObj = NoCart
                 THEN Finish(p, r, ErrNoCart)
                 ELSE IF Len(r.cartObj.cartItems) = 0
                 THEN Finish(p, r, ErrEmptyCart)
                 ELSE IF ~r.address
                 THEN Finish(p, r, ErrNoAddress)
                 ELSE IF r.walletMoney < CartTotal(r.cartObj.cartItems)
                 THEN Finish(p, [r EXCEPT !.total = CartTotal(r.cartObj.cartItems)], ErrBalance)
                 ELSE Goto(p, [r EXCEPT !.total = CartTotal(r.cartObj.cartItems)], "address")
    /\ UNCHANGED <<carts, wallet, addressSet, catalog, calls>>

RECURSIVE TotalAtCatalogCost(_)
\* the lines priced by what the catalog says now
TotalAtCatalogCost(cartItems) ==
    IF cartItems = <<>>
    THEN 0
    ELSE ProductFindById(IdToString(Head(cartItems).product._id)).cost * Head(cartItems).quantity
         + TotalAtCatalogCost(Tail(cartItems))

\* the total is taken from the catalog's current costs
ChkFindCatalogCost(p) ==
    /\ At(p, "checkout", "find")
    /\ LET r == [req[p] EXCEPT !.cartObj = CartFindOne(req[p].user)]
       IN req' = IF r.cartObj = NoCart
                 THEN Finish(p, r, ErrNoCart)
                 ELSE IF Len(r.cartObj.cartItems) = 0
                 THEN Finish(p, r, ErrEmptyCart)
                 ELSE IF r.walletMoney < TotalAtCatalogCost(r.cartObj.cartItems)
                 THEN Finish(p, [r EXCEPT !.total = TotalAtCatalogCost(r.cartObj.cartItems)], ErrBalance)
                 ELSE Goto(p, [r EXCEPT !.total = TotalAtCatalogCost(r.cartObj.cartItems)], "address")
    /\ UNCHANGED <<carts, wallet, addressSet, catalog, calls>>

\* getCartByUser, the empty-cart check, the total and the balance check
ChkFind(p) ==
    /\ At(p, "checkout", "find")
    /\ LET r == [req[p] EXCEPT !.cartObj = CartFindOne(req[p].user)]
       IN req' = IF r.cartObj = NoCart
                 THEN Finish(p, r, ErrNoCart)
                 ELSE IF Len(r.cartObj.cartItems) = 0
                 THEN Finish(p, r, ErrEmptyCart)
                 ELSE IF r.walletMoney < CartTotal(r.cartObj.cartItems)
                 THEN Finish(p, [r EXCEPT !.total = CartTotal(r.cartObj.cartItems)], ErrBalance)
                 ELSE Goto(p, [r EXCEPT !.total = CartTotal(r.cartObj.cartItems)], "address")
    /\ UNCHANGED <<carts, wallet, addressSet, catalog, calls>>

\* the cart is emptied and saved before the address is looked at
ChkAddressAfterClear(p) ==
    /\ At(p, "checkout", "address")
    /\ carts' = CartSave(req[p].user, CartDoc(<<>>))
    /\ LET r == req[p]
       IN req' = IF ~r.address
                 THEN Finish(p, r, ErrNoAddress)
                 ELSE Goto(p, [r EXCEPT !.cartObj.cartItems = <<>>,
                                        !.walletMoney = r.walletMoney - r.total],
                           "saveCart")
    /\ UNCHANGED <<wallet, addressSet, catalog, calls>>

\* the user is saved before the cart
ChkAddressSavesUser(p) ==
    /\ At(p, "checkout", "address")
    /\ LET r == req[p]
       IN IF ~r.address
          THEN /\ req' = Finish(p, r, ErrNoAddress)
               /\ UNCHANGED wallet
          ELSE /\ req' = Goto(p, [r EXCEPT !.cartObj.cartItems = <<>>,
                                           !.walletMoney = r.walletMoney - r.total],
                              "saveCart")
               /\ wallet' = UserSave(r.user, r.walletMoney - r.total)
    /\ UNCHANGED <<carts, addressSet, catalog, calls>>

\* user.hasSetNonDefaultAddress(), then the in-memory updates
ChkAddress(p) ==
    /\ At(p, "checkout", "address")
    /\ LET r == req[p]
       IN req' = IF ~r.address
                 THEN Finish(p, r, ErrNoAddress)
                 ELSE Goto(p, [r EXCEPT !.cartObj.cartItems = <<>>,
                                        !.walletMoney = r.walletMoney - r.total],
                           "saveCart")
    /\ UNCHANGED <<carts, wallet, addressSet, catalog, calls>>

\* checkout removes the cart document instead of saving it emptied
ChkRemoveCart(p) ==
    /\ At(p, "checkout", "saveCart")
    /\ carts' = CartSave(req[p].user, NoCart)
    /\ req' = Goto(p, req[p], "saveUser")
    /\ UNCHANGED <<wallet, addressSet, catalog, calls>>

ChkSaveCart(p) ==
    /\ At(p, "checkout", "saveCart")
    /\ carts' = CartSave(req[p].user, req[p].cartObj)
    /\ req' = Goto(p, req[p], "saveUser")
    /\ UNCHANGED <<wallet, addressSet, catalog, calls>>

ChkSaveUser(p) ==
    /\ At(p, "checkout", "saveUser")
    /\ wallet' = UserSave(req[p].user, req[p].walletMoney)
    /\ req' = Finish(p, req[p], OK)
    /\ UNCHANGED <<carts, addressSet, catalog, calls>>

----------------------------------------------------------------------------
(* The environment *)

\* an awaited write rejects, or the process stops before it: the handler
\* ends without that write and without any later one
Abort(p) ==
    /\ req[p].pc \in {"create", "saveCart", "saveUser"}
    /\ req' = Finish(p, req[p], ErrInternal)
    /\ UNCHANGED <<carts, wallet, addressSet, catalog, calls>>

\* the response is sent; the slot serves the next request
Return(p) ==
    /\ req[p].pc = "done"
    /\ req' = [req EXCEPT ![p] = Idle]
    /\ UNCHANGED <<carts, wallet, addressSet, catalog, calls>>

\* the catalog's owner adds, reprices or removes a product
CatalogChange ==
    /\ \E productId \in ProductIds, v \in CatalogEntries :
         /\ catalog[productId] # v
         /\ catalog' = [catalog EXCEPT ![productId] = v]
    /\ calls' = calls + 1
    /\ UNCHANGED <<carts, wallet, addressSet, req>>

Step(p) ==
    \/ getCartByUser(p)
    \/ AddFind(p) \/ AddCreate(p) \/ AddLookup(p) \/ AddSave(p)
    \/ UpdFind(p) \/ UpdLookup(p) \/ UpdSave(p)
    \/ DelFind(p) \/ DelSave(p)
    \/ ChkFind(p) \/ ChkAddress(p) \/ ChkSaveCart(p) \/ ChkSaveUser(p)
    \/ Return(p)

BeginAny(p) ==
    \/ BeginGet(p) \/ BeginAdd(p) \/ BeginUpdate(p) \/ BeginDelete(p)
    \/ BeginCheckout(p)

\* requests interleave at their awaits; writes can fail
Next ==
    \/ \E p \in Procs : calls < MaxRacingCalls /\ BeginAny(p)
    \/ \E p \in Procs : Step(p)
    \/ \E p \in Procs : Abort(p)
    \/ calls < MaxRacingCalls /\ CatalogChange

Spec == Init /\ [][Next]_vars

\* one request at a time, every store call succeeds
NextSeq ==
    \/ \E p \in Procs : calls < MaxCalls /\ AllIdle /\ BeginAny(p)
    \/ \E p \in Procs : Step(p)
    \/ calls < MaxCalls /\ AllIdle /\ CatalogChange

SpecSeq == Init /\ [][NextSeq]_vars

\* one request at a time, but an awaited write can fail or the process stop
NextFault ==
    \/ \E p \in Procs : calls < MaxCalls /\ AllIdle /\ BeginAny(p)
    \/ \E p \in Procs : Step(p)
    \/ \E p \in Procs : Abort(p)
    \/ calls < MaxCalls /\ AllIdle /\ CatalogChange

SpecFault == Init /\ [][NextFault]_vars

----------------------------------------------------------------------------
(* The service called with any quantity *)

\* addProductToCart and updateProductInCart take the quantity as it comes:
\* nothing in the service looks at its value
CallerQuantities == Quantities \cup {0, -1}

BeginAddUnvalidated(p) ==
    \E u \in Users, productId \in RequestIds, quantity \in CallerQuantities :
        Begin(p, "add", u, productId, quantity)

BeginUpdateUnvalidated(p) ==
    \E u \in Users, productId \in RequestIds, quantity \in CallerQuantities :
        Begin(p, "update", u, productId, quantity)

BeginAnyUnvalidated(p) ==
    \/ BeginGet(p) \/ BeginAddUnvalidated(p) \/ BeginUpdateUnvalidated(p)
    \/ BeginDelete(p) \/ BeginCheckout(p)

\* one request at a time, the quantity is whatever the caller passes
NextUnvalidated ==
    \/ \E p \in Procs : calls < MaxCalls /\ AllIdle /\ BeginAnyUnvalidated(p)
    \/ \E p \in Procs : Step(p)

SpecUnvalidated == Init /\ [][NextUnvalidated]_vars

----------------------------------------------------------------------------
(* Checkouts racing with adds and with each other *)

\* addProductToCart and checkout requests interleave at their awaits; every
\* store call succeeds
NextCheckoutRace ==
    \/ \E p \in Procs : calls < MaxCheckoutRaceCalls /\ (BeginAdd(p) \/ BeginCheckout(p))
    \/ \E p \in Procs : AddFind(p) \/ AddCreate(p) \/ AddLookup(p) \/ AddSave(p)
    \/ \E p \in Procs : ChkFind(p) \/ ChkAddress(p) \/ ChkSaveCart(p) \/ ChkSaveUser(p)
    \/ \E p \in Procs : Return(p)

SpecCheckoutRace == Init /\ [][NextCheckoutRace]_vars

----------------------------------------------------------------------------
(* One caller's round trip: add, then update, then get *)

\* the user has no cart, or the empty cart that a checkout or a rejected
\* first add has left
InitRoundTrip ==
    /\ carts \in [Users -> {NoCart, CartDoc(<<>>)}]
    /\ wallet \in [Users -> InitWallets]
    /\ addressSet = [u \in Users |-> u = "u1"]
    /\ catalog = [productId \in ProductIds |-> IF productId = "p1" THEN <<100>> ELSE <<150>>]
    /\ req = [p \in Procs |-> Idle]
    /\ calls = 0

\* the caller that has its answer calls again, for the same user and product
Chain(p, op, quantity) ==
    /\ req[p].pc = "done"
    /\ calls' = calls + 1
    /\ req' = [req EXCEPT ![p] =
         [Idle EXCEPT !.pc = "find", !.op = op, !.user = req[p].user,
                      !.productId = req[p].productId, !.quantity = quantity,
                      !.pre = [cart |-> carts[req[p].user],
                               wallet |-> wallet[req[p].user]]]]
    /\ UNCHANGED <<carts, wallet, addressSet, catalog>>

BeginRoundTrip(p) ==
    /\ calls = 0
    /\ \E u \in Users, productId \in ProductIds, quantity \in CallerQuantities :
           Begin(p, "add", u, productId, quantity)

ThenUpdate(p) == req[p].op = "add" /\ Chain(p, "update", 5)

ThenGet(p) == req[p].op = "update" /\ Chain(p, "get", 0)

NextRoundTrip ==
    \/ \E p \in Procs : BeginRoundTrip(p)
    \/ \E p \in Procs : AddFind(p) \/ AddCreate(p) \/ AddLookup(p) \/ AddSave(p)
    \/ \E p \in Procs : ThenUpdate(p)
    \/ \E p \in Procs : UpdFind(p) \/ UpdLookup(p) \/ UpdSave(p)
    \/ \E p \in Procs : ThenGet(p)
    \/ \E p \in Procs : getCartByUser(p)

SpecRoundTrip == InitRoundTrip /\ [][NextRoundTrip]_vars

----------------------------------------------------------------------------
(* Vocabulary of the properties *)

\* request p has finished operation op and its response is not yet sent
Done(p, op) == req[p].pc = "done" /\ req[p].op = op

\* the line items of the caller's cart when the call began (none without a cart)
PreItems(p) == req[p].pre.cart.cartItems

HasLine(cartItems, productId) ==
    \E i \in 1..Len(cartItems) : cartItems[i].product._id = [hex |-> productId]

Listed(productId) == productId \in ProductIds /\ catalog[productId] # <<>>

RECURSIVE SumLines(_)
SumLines(cartItems) ==
    IF cartItems = <<>>
    THEN 0
    ELSE Head(cartItems).product.cost * Head(cartItems).quantity
         + SumLines(Tail(cartItems))

\* cartItems without its i-th line
WithoutLine(cartItems, i) ==
    SubSeq(cartItems, 1, i - 1) \o SubSeq(cartItems, i + 1, Len(cartItems))

\* cartItems with the quantity of every line of productId replaced
WithQuantity(cartItems, productId, quantity) ==
    [i \in 1..Len(cartItems) |->
        IF cartItems[i].product._id = [hex |-> productId]
        THEN [product |-> cartItems[i].product, quantity |-> quantity]
        ELSE cartItems[i]]

----------------------------------------------------------------------------
(* C1: in every reachable state, also when requests of one user interleave *)
(* at their awaits and writes fail, no cart holds two line items with the  *)
(* same product id.                                                        *)
C1_UniqueProductIds ==
    \A u \in Users :
        \A i, j \in 1..Len(carts[u].cartItems) :
            i # j => carts[u].cartItems[i].product._id # carts[u].cartItems[j].product._id

\* two adds of one product for one user both passed the membership check and
\* both saved
C1_Witness ==
    \E p, q \in Procs :
        /\ p # q
        /\ Done(p, "add") /\ Done(q, "add")
        /\ req[p].result = OK /\ req[q].result = OK
        /\ req[p].user = req[q].user
        /\ req[p].productId = req[q].productId
        /\ Len(carts[req[p].user].cartItems) = 1

----------------------------------------------------------------------------
(* C2: checkout is all-or-nothing on persisted state: once a checkout is   *)
(* over, whether it returned or an awaited save failed or the process      *)
(* stopped, either the cart is cleared and walletMoney is down by the      *)
(* total, or neither the cart nor walletMoney has changed.                 *)
C2_CheckoutAllOrNothing ==
    \A p \in Procs :
        Done(p, "checkout") =>
            LET u == req[p].user
            IN \/ /\ carts[u] = req[p].pre.cart
                  /\ wallet[u] = req[p].pre.wallet
               \/ /\ carts[u] = CartDoc(<<>>)
                  /\ wallet[u] = req[p].pre.wallet - SumLines(PreItems(p))

----------------------------------------------------------------------------
(* C3: addProductToCart with a productId the catalog does not list fails   *)
(* with 400 "Product doesn't exist in database" and leaves the cart store  *)
(* as it was: the user has a cart document after the call only if they    *)
(* had one before, with the same line items.                               *)
C3_AddUnknownNoMutation ==
    \A p \in Procs :
        (Done(p, "add") /\ ~Listed(req[p].productId)) =>
            /\ req[p].result = ErrNoProduct
            /\ carts[req[p].user] = req[p].pre.cart

----------------------------------------------------------------------------
(* C4: addProductToCart of a listed product that is not in the user's cart *)
(* succeeds, and the cart is the previous cart (empty if there was none)   *)
(* with one line (product as listed, quantity as given) appended; of a     *)
(* product that is already a line item it fails with 400 "Product already  *)
(* in cart..." and leaves the cart, the line's quantity included, as it    *)
(* was.                                                                    *)
C4_AddAppendsOnce ==
    \A p \in Procs :
        Done(p, "add") =>
            LET u == req[p].user
                productId == req[p].productId
            IN /\ (Listed(productId) /\ ~HasLine(PreItems(p), productId)) =>
                    /\ req[p].result = OK
                    /\ carts[u] =
                         CartDoc(PreItems(p) \o
                                 <<[product |-> [_id |-> [hex |-> productId],
                                                 cost |-> catalog[productId][1]],
                                    quantity |-> req[p].quantity]>>)
                    /\ req[p].cartObj = carts[u]
               /\ HasLine(PreItems(p), productId) =>
                    /\ req[p].result = ErrAlreadyInCart
                    /\ carts[u] = req[p].pre.cart

\* a second add of a product, with another quantity than the line has
C4_Witness ==
    \E p \in Procs :
        /\ Done(p, "add")
        /\ req[p].result = ErrAlreadyInCart
        /\ \E i \in 1..Len(PreItems(p)) :
             /\ PreItems(p)[i].product._id = [hex |-> req[p].productId]
             /\ PreItems(p)[i].quantity # req[p].quantity
        /\ carts[req[p].user] = req[p].pre.cart

----------------------------------------------------------------------------
(* C5: checkout reports the first precondition that fails, in the order    *)
(* cart exists (404), cart non-empty ("No products in cart"), walletMoney  *)
(* >= total ("Insufficient Balance"), address set ("No address set"); it   *)
(* succeeds when none fails.                                               *)
C5_CheckoutErrorOrder ==
    \A p \in Procs :
        Done(p, "checkout") =>
            req[p].result =
                IF req[p].pre.cart = NoCart THEN ErrNoCart
                ELSE IF PreItems(p) = <<>> THEN ErrEmptyCart
                ELSE IF req[p].pre.wallet < SumLines(PreItems(p)) THEN ErrBalance
                ELSE IF ~addressSet[req[p].user] THEN ErrNoAddress
                ELSE OK

\* the total exceeds the wallet of a user who has no address set either
C5_Witness ==
    \E p \in Procs :
        /\ Done(p, "checkout")
        /\ req[p].result = ErrBalance
        /\ ~addressSet[req[p].user]
        /\ req[p].pre.wallet < SumLines(PreItems(p))

----------------------------------------------------------------------------
(* C6: a checkout whose preconditions hold (a cart with at least one line, *)
(* walletMoney >= total, address set) succeeds, leaves the persisted cart  *)
(* with no line items and the persisted walletMoney lower by the total,    *)
(* the sum over the lines of product.cost * quantity.                      *)
C6_CheckoutEffect ==
    \A p \in Procs :
        (/\ Done(p, "checkout")
         /\ req[p].pre.cart # NoCart
         /\ PreItems(p) # <<>>
         /\ req[p].pre.wallet >= SumLines(PreItems(p))
         /\ addressSet[req[p].user]) =>
            /\ req[p].result = OK
            /\ carts[req[p].user] = CartDoc(<<>>)
            /\ wallet[req[p].user] = req[p].pre.wallet - SumLines(PreItems(p))

\* one line, cost 100, quantity 2, wallet 500: wallet 300 and an empty cart
C6_Witness ==
    \E p \in Procs :
        /\ Done(p, "checkout")
        /\ req[p].result = OK
        /\ PreItems(p) = <<[product |-> [_id |-> [hex |-> "p1"], cost |-> 100],
                            quantity |-> 2]>>
        /\ req[p].pre.wallet = 500
        /\ wallet[req[p].user] = 300
        /\ carts[req[p].user].cartItems = <<>>

----------------------------------------------------------------------------
(* C7: a checkout that fails a precondition (no cart, empty cart,          *)
(* insufficient balance, no address set) changes neither the user's cart   *)
(* nor the user's walletMoney.                                             *)
C7_FailedCheckoutNoMutation ==
    \A p \in Procs :
        (/\ Done(p, "checkout")
         /\ req[p].result \in {ErrNoCart, ErrEmptyCart, ErrBalance, ErrNoAddress}) =>
            /\ carts[req[p].user] = req[p].pre.cart
            /\ wallet[req[p].user] = req[p].pre.wallet

\* the last precondition fails: lines in the cart, enough money, no address
C7_Witness ==
    \E p \in Procs :
        /\ Done(p, "checkout")
        /\ req[p].result = ErrNoAddress
        /\ PreItems(p) # <<>>
        /\ carts[req[p].user].cartItems = PreItems(p)

----------------------------------------------------------------------------
(* C8 as stated: updateProductInCart on a productId that is a line item    *)
(* sets that line's quantity to the given one and leaves the other lines,  *)
(* the order and the product snapshot alone; on a productId that is not a  *)
(* line item it fails with a 400 and leaves the cart as it was.            *)
C8_UpdateReplaces_AsStated ==
    \A p \in Procs :
        Done(p, "update") =>
            LET u == req[p].user
                productId == req[p].productId
            IN /\ HasLine(PreItems(p), productId) =>
                    /\ req[p].result = OK
                    /\ carts[u] =
                         CartDoc(WithQuantity(PreItems(p), productId, req[p].quantity))
               /\ ~HasLine(PreItems(p), productId) =>
                    /\ req[p].result.code = 400
                    /\ carts[u] = req[p].pre.cart

(* C8 amended: updateProductInCart on a productId that is a line item and  *)
(* is listed in the catalog sets that line's quantity to the given one and *)
(* leaves the other lines, the order and the product snapshot alone (so a  *)
(* second update with the same quantity changes nothing); on a line item   *)
(* whose product the catalog no longer lists it fails with 400 "Product    *)
(* doesn't exist in database", and on a productId that is not a line item  *)
(* it fails with a 400; both failures leave the cart as it was.            *)
C8_UpdateReplacesListed ==
    \A p \in Procs :
        Done(p, "update") =>
            LET u == req[p].user
                productId == req[p].productId
            IN /\ (HasLine(PreItems(p), productId) /\ Listed(productId)) =>
                    /\ req[p].result = OK
                    /\ carts[u] =
                         CartDoc(WithQuantity(PreItems(p), productId, req[p].quantity))
                    /\ req[p].cartObj = carts[u]
                    /\ (\A i \in 1..Len(PreItems(p)) :
                          PreItems(p)[i].product._id = [hex |-> productId]
                              => PreItems(p)[i].quantity = req[p].quantity)
                         => carts[u] = req[p].pre.cart
               /\ (HasLine(PreItems(p), productId) /\ ~Listed(productId)) =>
                    /\ req[p].result = ErrNoProduct
                    /\ carts[u] = req[p].pre.cart
               /\ ~HasLine(PreItems(p), productId) =>
                    /\ req[p].result.code = 400
                    /\ carts[u] = req[p].pre.cart

\* an update changes the second of two lines, whose product costs what it
\* cost when it was added
C8_Witness ==
    \E p \in Procs :
        /\ Done(p, "update")
        /\ req[p].result = OK
        /\ Len(PreItems(p)) = 2
        /\ PreItems(p)[2].product._id = [hex |-> req[p].productId]
        /\ PreItems(p)[2].quantity # req[p].quantity
        /\ carts[req[p].user].cartItems[2].quantity = req[p].quantity
        /\ carts[req[p].user].cartItems[1] = PreItems(p)[1]

----------------------------------------------------------------------------
(* C9: deleteProductFromCart on a productId that is a line item removes    *)
(* that line and leaves the other lines (product, quantity, order) alone;  *)
(* without a cart, or on a productId that is not a line item, it fails     *)
(* with a 400 and leaves the cart store as it was.                         *)
C9_DeleteRemovesOneLine ==
    \A p \in Procs :
        Done(p, "delete") =>
            LET u == req[p].user
                productId == req[p].productId
            IN /\ HasLine(PreItems(p), productId) =>
                    /\ req[p].result = OK
                    /\ \E i \in 1..Len(PreItems(p)) :
                         /\ PreItems(p)[i].product._id = [hex |-> productId]
                         /\ carts[u] = CartDoc(WithoutLine(PreItems(p), i))
               /\ ~HasLine(PreItems(p), productId) =>
                    /\ req[p].result.code = 400
                    /\ carts[u] = req[p].pre.cart

\* the first of two lines is deleted
C9_Witness ==
    \E p \in Procs :
        /\ Done(p, "delete")
        /\ req[p].result = OK
        /\ Len(PreItems(p)) = 2
        /\ PreItems(p)[1].product._id = [hex |-> req[p].productId]
        /\ carts[req[p].user].cartItems = <<PreItems(p)[2]>>

----------------------------------------------------------------------------
(* C10: getCartByUser fails with 404 "User does not have a cart" exactly   *)
(* when the user has no cart document and otherwise returns the user's     *)
(* cart; its step changes no cart, no walletMoney and nothing else that is *)
(* stored.                                                                 *)
C10_GetResult ==
    \A p \in Procs :
        Done(p, "get") =>
            /\ req[p].result = ErrNoCart <=> req[p].pre.cart = NoCart
            /\ req[p].pre.cart # NoCart =>
                 /\ req[p].result = OK
                 /\ req[p].cartObj = req[p].pre.cart
            /\ carts[req[p].user] = req[p].pre.cart

C10_GetStepFrame ==
    \A p \in Procs :
        (req[p].op = "get" /\ req[p].pc = "find" /\ req'[p].pc = "done") =>
            UNCHANGED <<carts, wallet, addressSet, catalog>>

C10_GetByUser == [](C10_GetResult) /\ [][C10_GetStepFrame]_vars

\* the cart document that a successful checkout has emptied is returned
C10_Witness ==
    \E p \in Procs :
        /\ Done(p, "get")
        /\ req[p].result = OK
        /\ carts[req[p].user] = CartDoc(<<>>)
        /\ wallet[req[p].user] < 500

----------------------------------------------------------------------------
(* C11: in every reachable state every line item of every cart has a       *)
(* quantity of at least 1, whatever quantities the callers of              *)
(* addProductToCart and updateProductInCart supply.                        *)
C11_QuantityAtLeastOne ==
    \A u \in Users :
        \A i \in 1..Len(carts[u].cartItems) : carts[u].cartItems[i].quantity >= 1

----------------------------------------------------------------------------
(* C12: a user's cart document comes into existence only by a create step  *)
(* of an addProductToCart of that user that found no cart; once it exists  *)
(* it exists in every later state, whatever operation runs; a successful   *)
(* checkout leaves the document in place with no line items, and a         *)
(* getCartByUser after it returns that empty cart, not the 404.            *)
C12_DocumentStays ==
    \A u \in Users :
        /\ carts[u].exists => carts'[u].exists
        /\ (~carts[u].exists /\ carts'[u].exists) =>
             \E p \in Procs :
                 /\ At(p, "add", "create")
                 /\ req[p].user = u
                 /\ req[p].cartObj = NoCart
                 /\ req'[p].pc # "create"

C12_EmptiedNotDeleted ==
    \A p \in Procs :
        /\ (Done(p, "checkout") /\ req[p].result = OK) =>
               carts[req[p].user] = CartDoc(<<>>)
        /\ (Done(p, "get") /\ req[p].pre.cart = CartDoc(<<>>)) =>
               /\ req[p].result = OK
               /\ req[p].cartObj.exists
               /\ req[p].cartObj.cartItems = <<>>

C12_CartLifecycle == [](C12_EmptiedNotDeleted) /\ [][C12_DocumentStays]_vars

\* a get after a successful checkout (the wallet is debited) returns the
\* emptied cart document
C12_Witness ==
    \E p \in Procs :
        /\ Done(p, "get")
        /\ req[p].result # ErrNoCart
        /\ req[p].cartObj.exists /\ Len(req[p].cartObj.cartItems) = 0
        /\ req[p].pre.wallet < 500

----------------------------------------------------------------------------
(* C13: for a user with no cart or an empty cart and a catalog product p,  *)
(* addProductToCart(user, p, q), then updateProductInCart(user, p, 5),     *)
(* then getCartByUser(user) returns a cart with exactly one line item, for *)
(* product p with quantity 5, whatever q was.                              *)
C13_RoundTrip ==
    \A p \in Procs :
        Done(p, "get") =>
            /\ req[p].result = OK
            /\ Len(req[p].cartObj.cartItems) = 1
            /\ req[p].cartObj.cartItems[1].product = ProductFindById(req[p].productId)
            /\ req[p].cartObj.cartItems[1].product._id = ObjectId(req[p].productId)
            /\ req[p].cartObj.cartItems[1].quantity = 5

\* the third call of the round trip has returned the cart for p
C13_Witness ==
    \E p \in Procs :
        /\ Done(p, "get")
        /\ calls = 3
        /\ req[p].productId \in ProductIds
        /\ HasLine(req[p].cartObj.cartItems, req[p].productId)

----------------------------------------------------------------------------
(* C14: a lost update.  When two addProductToCart calls of one user for    *)
(* different products both read the cart before either saves, the save of  *)
(* the later writer leaves a persisted cart with its own line and without  *)
(* the line of the earlier writer, although both calls answer success.     *)
C14_LastWriterWins ==
    \A p, q \in Procs :
        ( /\ p # q
          /\ At(p, "add", "saveCart") /\ req'[p].pc = "done" /\ req'[p].result = OK
          /\ Done(q, "add") /\ req[q].result = OK
          /\ req[q].user = req[p].user
          /\ req[q].productId # req[p].productId
          /\ ~HasLine(req[p].cartObj.cartItems, req[q].productId) )
        => /\ carts'[req[p].user] = req[p].cartObj
           /\ HasLine(carts'[req[p].user].cartItems, req[p].productId)
           /\ ~HasLine(carts'[req[p].user].cartItems, req[q].productId)

C14_LostUpdate == [][C14_LastWriterWins]_vars

\* both adds have answered success and the cart holds one of the two lines
C14_Witness ==
    \E p, q \in Procs :
        /\ p # q
        /\ Done(p, "add") /\ req[p].result = OK
        /\ Done(q, "add") /\ req[q].result = OK
        /\ req[q].user = req[p].user
        /\ req[q].productId # req[p].productId
        /\ Len(carts[req[p].user].cartItems) = 1
        /\ HasLine(carts[req[p].user].cartItems, req[p].productId)
        /\ ~HasLine(carts[req[p].user].cartItems, req[q].productId)

----------------------------------------------------------------------------
(* C15: when checkout stops between its two saves, each of the two partial *)
(* outcomes is reachable: from the point where checkout starts to save,    *)
(* its first write can clear the cart and leave walletMoney as it was, and *)
(* its first write can decrement walletMoney and leave the cart as it was. *)
C15_EitherPartialOutcome ==
    \A p \in Procs :
        At(p, "checkout", "saveCart") =>
            /\ ENABLED ( /\ Step(p)
                         /\ carts'[req[p].user] # carts[req[p].user]
                         /\ wallet'[req[p].user] = wallet[req[p].user] )
            /\ ENABLED ( /\ Step(p)
                         /\ wallet'[req[p].user] # wallet[req[p].user]
                         /\ carts'[req[p].user] = carts[req[p].user] )

(* C15, amended: a checkout that stops between its two saves leaves the    *)
(* cart cleared and walletMoney not decremented; walletMoney is decremented *)
(* only by a checkout that has cleared the cart and answers success.        *)
C15_CartSavedFirst ==
    \A p \in Procs :
        Done(p, "checkout") =>
            /\ (req[p].result = ErrInternal /\ carts[req[p].user] # req[p].pre.cart) =>
                   /\ carts[req[p].user] = CartDoc(<<>>)
                   /\ wallet[req[p].user] = req[p].pre.wallet
            /\ wallet[req[p].user] # req[p].pre.wallet =>
                   /\ carts[req[p].user] = CartDoc(<<>>)
                   /\ req[p].result = OK

\* the checkout stopped after the cart save: cart cleared, wallet as before
C15_Witness ==
    \E p \in Procs :
        /\ Done(p, "checkout")
        /\ req[p].result = ErrInternal
        /\ Len(PreItems(p)) > 0
        /\ carts[req[p].user] = CartDoc(<<>>)
        /\ wallet[req[p].user] = req[p].pre.wallet

----------------------------------------------------------------------------
(* C16: a line item holds the product as the catalog had it when it was    *)
(* added.  An add stores the catalog's product of that moment; no step     *)
(* changes the product of a line that stays in the cart; update keeps      *)
(* every line's product; checkout's total and wallet debit are computed    *)
(* from the costs held in the lines, whatever the catalog says now.        *)
C16_SnapshotUsed ==
    \A p \in Procs :
        /\ (Done(p, "add") /\ req[p].result = OK) =>
               LET cartItems == carts[req[p].user].cartItems
               IN cartItems[Len(cartItems)].product = ProductFindById(req[p].productId)
        /\ (Done(p, "update") /\ req[p].result = OK) =>
               LET cartItems == carts[req[p].user].cartItems
               IN /\ Len(cartItems) = Len(PreItems(p))
                  /\ \A i \in 1..Len(cartItems) :
                         cartItems[i].product = PreItems(p)[i].product
        /\ (Done(p, "checkout") /\ req[p].result = OK) =>
               /\ req[p].total = SumLines(PreItems(p))
               /\ wallet[req[p].user] = req[p].pre.wallet - SumLines(PreItems(p))

C16_NeverRefreshed ==
    \A u \in Users :
        \A i \in 1..Len(carts[u].cartItems), j \in 1..Len(carts'[u].cartItems) :
            carts'[u].cartItems[j].product._id = carts[u].cartItems[i].product._id
                => carts'[u].cartItems[j].product = carts[u].cartItems[i].product

C16_CostAtAddTime == [](C16_SnapshotUsed) /\ [][C16_NeverRefreshed]_vars

\* a successful checkout of a line whose product the catalog now lists at
\* another cost
C16_Witness ==
    \E p \in Procs :
        /\ Done(p, "checkout")
        /\ req[p].result = OK
        /\ \E i \in 1..Len(PreItems(p)) :
               LET product == PreItems(p)[i].product
               IN /\ Listed(IdToString(product._id))
                  /\ ProductFindById(IdToString(product._id)).cost # product.cost
        /\ wallet[req[p].user] = req[p].pre.wallet - SumLines(PreItems(p))

----------------------------------------------------------------------------
(* C17: the order of the error checks.  updateProductInCart tests that the *)
(* cart exists, then that the product is in the catalog, then that it is   *)
(* in the cart: without a cart it fails with the no-cart error even for an *)
(* unknown productId, and with a cart an unknown productId fails with      *)
(* "Product doesn't exist in database", not "Product not in cart".         *)
(* addProductToCart tests cart membership before the catalog: a productId  *)
(* that is already a line item fails with "Product already in cart..."     *)
(* whether or not the catalog still lists it.                              *)
C17_ErrorPrecedence ==
    \A p \in Procs :
        /\ Done(p, "update") =>
               req[p].result =
                   IF req[p].pre.cart = NoCart THEN ErrNoCartUpdate
                   ELSE IF ~Listed(req[p].productId) THEN ErrNoProduct
                   ELSE IF ~HasLine(PreItems(p), req[p].productId) THEN ErrNotInCart
                   ELSE OK
        /\ Done(p, "add") =>
               req[p].result =
                   IF HasLine(PreItems(p), req[p].productId) THEN ErrAlreadyInCart
                   ELSE IF ~Listed(req[p].productId) THEN ErrNoProduct
                   ELSE OK

\* an add of a product that is a line item and that the catalog no longer lists
C17_Witness ==
    \E p \in Procs :
        /\ Done(p, "add")
        /\ req[p].result = ErrAlreadyInCart
        /\ HasLine(PreItems(p), req[p].productId)
        /\ ~Listed(req[p].productId)

----------------------------------------------------------------------------
(* C18: with walletMoney >= 0 at the start, costs >= 0 and quantities      *)
(* >= 1, the persisted walletMoney of every user is >= 0 in every          *)
(* reachable state and no step increases it, also when checkouts of one    *)
(* user interleave with each other and with adds.                          *)
C18_WalletNonNegative == \A u \in Users : wallet[u] >= 0

C18_WalletStepDown == \A u \in Users : wallet'[u] <= wallet[u]

C18_WalletNeverGrows == [](C18_WalletNonNegative) /\ [][C18_WalletStepDown]_vars

----------------------------------------------------------------------------
(* C19: a step of an operation invoked for user u leaves the cart document *)
(* and the walletMoney of every other user unchanged; steps of add,        *)
(* update, delete and get change no walletMoney at all: a walletMoney      *)
(* changes only in the step that ends a successful checkout of its user;   *)
(* and nothing but a handler's step changes a cart or a walletMoney.       *)
C19_HandlerStep(p) == req[p].pc \notin {"idle", "done"} /\ req'[p] # req[p]

C19_FrameStep ==
    /\ \A p \in Procs :
           C19_HandlerStep(p) =>
               /\ \A v \in Users \ {req[p].user} :
                      carts'[v] = carts[v] /\ wallet'[v] = wallet[v]
               /\ req[p].op # "checkout" => wallet' = wallet
               /\ wallet' # wallet =>
                      /\ At(p, "checkout", "saveUser")
                      /\ req'[p].pc = "done" /\ req'[p].result = OK
    /\ (carts' # carts \/ wallet' # wallet) => \E p \in Procs : C19_HandlerStep(p)

C19_Frame == [][C19_FrameStep]_vars

\* requests of the two users have both written: each cart is its owner's
C19_Witness ==
    \E p, q \in Procs :
        /\ Done(p, "add") /\ req[p].result = OK /\ req[p].user = "u1"
        /\ Done(q, "add") /\ req[q].result = OK /\ req[q].user = "u2"
        /\ carts["u1"] = req[p].cartObj
        /\ carts["u2"] = req[q].cartObj
        /\ wallet["u1"] = req[p].pre.wallet /\ wallet["u2"] = req[q].pre.wallet

----------------------------------------------------------------------------
(* C20: every successful checkout debits the wallet by exactly the total   *)
(* of the line items that its cart save removes from the persisted cart,   *)
(* also when an add of the same user interleaves between the checkout's    *)
(* read and its saves: at the cart save, the total the checkout has        *)
(* subtracted is the total of the lines the persisted cart holds, and the  *)
(* save leaves the persisted cart without lines.                           *)
C20_ChargesWhatItRemoves ==
    \A p \in Procs :
        (At(p, "checkout", "saveCart") /\ req'[p].pc = "saveUser") =>
            /\ req[p].total = SumLines(carts[req[p].user].cartItems)
            /\ req[p].pre.wallet - req[p].walletMoney = req[p].total
            /\ carts'[req[p].user].cartItems = <<>>

C20_CheckoutChargesRemoved == [][C20_ChargesWhatItRemoves]_vars

====
